---- MODULE Spec2Model ----
\* Verification model of the real-time turn-taking engine (CallManager) of
\* Voice-bot-automation: the session registry, the audio buffer and loudness
\* gate, the boundary (silence) timer and the turn cycle it starts, the
\* watchdog, call teardown, and the websocket events of server.js that drive
\* them.  Every JavaScript macrotask (an event handler up to its first await,
\* or the continuation of an await) is one atomic action.
EXTENDS Integers, Sequences, FiniteSets, TLC

\* ------------------------------------------------------------------ bounds
NumCalls == 1
NumConns == 1
\* budgets of specification Spec (turn taking)
MaxFrames == 5
MaxCycles == 2
MaxWatchdogs == 2
MaxObjs == 3
MaxEndCalls == 1
\* budgets of specification SpecTeardown
TdFrames == 2
TdCycles == 1
TdWatchdogs == 1
TdObjs == 4
TdEndCalls == 2
TdPolls == 2
\* budgets of specification SpecDrain
DrFrames == 2
DrCycles == 1
DrWatchdogs == 1
DrObjs == 2
DrEndCalls == 2
\* frames ingested in specification SpecBuffer
BufFrames == 4
\* specification SpecQuiet: frames ingested, and the length of the quiet
\* stretch looked at
QtFrames == 152
QuietFrames == 60
\* specification SpecUtterance: the loud frames of the utterance, then the
\* budgets
LoudFrames == 100
UtFrames == 162
UtCycles == 2
UtWatchdogs == 2
UtObjs == 3
UtEndCalls == 1
\* budgets of specification SpecEpisode
EpFrames == 5
EpCycles == 3
EpWatchdogs == 2
EpObjs == 3
\* budgets of specification SpecLanguage
LgFrames == 3
LgCycles == 1
LgWatchdogs == 1
LgObjs == 2
\* specification SpecOtp: budgets, and the number of OTP values
OtFrames == 4
OtCycles == 2
OtWatchdogs == 2
OtObjs == 4
NumOtps == 2
\* budgets of specification SpecPlayback
RcFrames == 6
RcCycles == 4
RcWatchdogs == 1
RcObjs == 5
RcLoudFrame == 3

PbFrames == 4
PbCycles == 1
PbWatchdogs == 1
PbObjs == 2
\* budgets of specification SpecOverride
OvFrames == 4
OvCycles == 2
OvWatchdogs == 1
OvObjs == 3
OvEndCalls == 1
MaxOverrides == 2

\* ------------------------------------------------------- program constants
PRE_SPEECH_CAP == 150
PRE_SPEECH_KEEP == 50
IN_SPEECH_CAP == 1400
LOUDNESS_THRESHOLD == 300
MAX_WAIT_LOOPS == 60
CHUNK_SIZE_BYTES == 320
BURST_FRAMES == 5
INITIAL_WATCHDOG_MS == 120000
REPLY_WATCHDOG_MS == 45000
WS_OPEN == 1
WS_CONNECTING == WS_OPEN - 1
WS_CLOSING == WS_OPEN + 1
WS_CLOSED == WS_OPEN + 2
\* VOLUME_MULTIPLIER = 2.5, in tenths
VOLUME_MULTIPLIER_TENTHS == 25
INT16_MAX == 32767
INT16_MIN == -32768
\* number of values of an Int16Array element
INT16_VALUES == 65536

NULL == 0
CallSids == 1..NumCalls
Conns == 1..NumConns

\* ------------------------------------------------------------------ strings
\* Texts are sequences of one-character strings so that trim() and === are
\* computed, not assumed.
WAIT == <<"W", "A", "I", "T">>
END_CALL_LOOP == <<"E", "N", "D", "_", "C", "A", "L", "L", "_", "L", "O", "O", "P">>
PaddedWait == <<" ">> \o WAIT \o <<" ">>
Spoken == <<"o", "k">>
Apology == <<"s", "o", "r", "r", "y">>
NoText == <<>>

\* The language_code field of a transcription response; NoLanguage is a
\* response without one (undefined or empty, both falsy).
NoLanguage == ""
DEFAULT_LANGUAGE_CODE == "en-IN"
\* codes the transcription provider answers with: the seven that textToStream
\* knows a name for, and one that it knows none for
LanguageCodes ==
    {"en-IN", "hi-IN", "ta-IN", "te-IN", "kn-IN", "mr-IN", "gu-IN", "bn-IN"}

\* textToStream's languageCodeMap, keyed by the English name of the language
languageCodeMap ==
    [English |-> "en-IN", Hindi |-> "hi-IN", Tamil |-> "ta-IN", Telugu |-> "te-IN",
     Kannada |-> "kn-IN", Marathi |-> "mr-IN", Gujarati |-> "gu-IN"]

\* languageCodeMap[targetLanguageName] || 'en-IN'
targetLanguageCode(targetLanguageName) ==
    IF targetLanguageName \in DOMAIN languageCodeMap
    THEN languageCodeMap[targetLanguageName]
    ELSE DEFAULT_LANGUAGE_CODE

\* streamToText's languageCode: response.data.language_code || "en-IN"
languageCode(language_code) ==
    IF language_code = NoLanguage THEN DEFAULT_LANGUAGE_CODE ELSE language_code

IsSpace(ch) == ch = " "

RECURSIVE trimStart(_)
trimStart(s) == IF s # <<>> /\ IsSpace(Head(s)) THEN trimStart(Tail(s)) ELSE s

RECURSIVE trimEnd(_)
trimEnd(s) ==
    IF s # <<>> /\ IsSpace(s[Len(s)]) THEN trimEnd(SubSeq(s, 1, Len(s) - 1)) ELSE s

\* String.prototype.trim
trim(s) == trimEnd(trimStart(s))

\* What the language-generation provider may answer (processCustomerIntent's
\* replyText on success); Apology stands for the fixed text of its catch branch.
Replies == {WAIT, PaddedWait, END_CALL_LOOP, Spoken}

\* Raw texts the speech-to-text API may return.
RawTexts == {<<>>, <<" ", "a">>, <<"h", "i", " ">>}

\* Encoded reply lengths (mu-law bytes) the synthesis step may produce;
\* 0 is the empty buffer textToStream returns from its catch branch.
AudioLens == {0, CHUNK_SIZE_BYTES + 1, (BURST_FRAMES + 1) * CHUNK_SIZE_BYTES + 1}

\* rms values on both sides of the loudness threshold
RmsValues == {LOUDNESS_THRESHOLD, LOUDNESS_THRESHOLD + 1}

\* generateTestReport's result, reduced to the field endCall reads
ReportResults == {"true", "false", "undefined"}

UserTurn(text) == [role |-> "user", content |-> text]
AssistantTurn(text) == [role |-> "assistant", content |-> text]
LoopTerminated == AssistantTurn(<<"[", "l", "o", "o", "p", "]">>)
WatchdogTerminated(ms) ==
    AssistantTurn(<<"[", "w", "d", IF ms = INITIAL_WATCHDOG_MS THEN "i" ELSE "r", "]">>)

\* ------------------------------------------------------------------- state
VARIABLES
    activeCalls,            \* callSid -> id of the registered callState object, or NULL
    nextScenario,           \* scenario startCall gives the next session
    manualOverrideResponse, \* pending manual reply; NoText (null or "") when none
    heap,                   \* callState objects, by id (startCall's and the {...callState} copies)
    hist,                   \* history arrays, by id (shared by a session and its copies)
    arrs,                   \* audioBuffer arrays, by id
    cyc,                    \* boundary timers and the turn cycles their callbacks run
    wd,                     \* watchdog timers
    ends,                   \* endCall invocations suspended at an await
    ws,                     \* websocket connections
    frameCount,             \* frames received so far (a frame is its arrival number)
    lastFrame,              \* callSid and rms of the frame ingested last
    injected,               \* manual override values set so far
    reports,                \* per history id: ###REPORT### lines emitted
    lastOutcome,            \* the most recent completed teardown: scenario and report kind
    pcm,                    \* the Int16Array of a decoded reply in the volume boost loop
    episode,                \* per history id: a loud frame was ingested since the last flush
    latestReceivedOTP,      \* the OTP injected last; NULL when none was
    otpForwarded            \* the OTP held has been passed to a generation call

vars == <<activeCalls, nextScenario, manualOverrideResponse, heap, hist, arrs, cyc, wd,
          ends, ws, frameCount, lastFrame, injected, reports, lastOutcome, pcm, episode,
          latestReceivedOTP, otpForwarded>>

\* The whole machine as one record, so that the methods below compose.
Cur ==
    [activeCalls |-> activeCalls, nextScenario |-> nextScenario,
     manualOverrideResponse |-> manualOverrideResponse, heap |-> heap, hist |-> hist,
     arrs |-> arrs, cyc |-> cyc, wd |-> wd, ends |-> ends, ws |-> ws,
     frameCount |-> frameCount, lastFrame |-> lastFrame, injected |-> injected,
     reports |-> reports,
     lastOutcome |-> lastOutcome, pcm |-> pcm, episode |-> episode,
     latestReceivedOTP |-> latestReceivedOTP, otpForwarded |-> otpForwarded]

Becomes(m) ==
    /\ activeCalls' = m.activeCalls
    /\ nextScenario' = m.nextScenario
    /\ manualOverrideResponse' = m.manualOverrideResponse
    /\ heap' = m.heap
    /\ hist' = m.hist
    /\ arrs' = m.arrs
    /\ cyc' = m.cyc
    /\ wd' = m.wd
    /\ ends' = m.ends
    /\ ws' = m.ws
    /\ frameCount' = m.frameCount
    /\ lastFrame' = m.lastFrame
    /\ injected' = m.injected
    /\ reports' = m.reports
    /\ lastOutcome' = m.lastOutcome
    /\ pcm' = m.pcm
    /\ episode' = m.episode
    /\ latestReceivedOTP' = m.latestReceivedOTP
    /\ otpForwarded' = m.otpForwarded

\* this.activeCalls.get(callSid)
Get(m, callSid) == IF callSid \in CallSids THEN m.activeCalls[callSid] ELSE NULL

\* clearTimeout(handle): cancels a pending timer, does nothing to any other
clearTimeout(timers, id) ==
    IF timers[id].st = "armed" THEN [timers EXCEPT ![id].st = "cancelled"] ELSE timers

\* resetWatchdog(callSid, ms, reason)
resetWatchdog(m, callSid, ms) ==
    LET o == Get(m, callSid) IN
    IF o = NULL THEN m
    ELSE LET old == m.heap[o].watchdogTimeout
             wd1 == IF old # NULL THEN clearTimeout(m.wd, old) ELSE m.wd
             wd2 == Append(wd1, [st |-> "armed", callState |-> o,
                                 callSid |-> callSid, ms |-> ms])
         IN [m EXCEPT !.wd = wd2, !.heap[o].watchdogTimeout = Len(wd2)]

\* faulty variant of startCall: every session is given the BOOKING scenario
startCall_booking(m, callSid, wsArg) ==
    LET m0 == [m EXCEPT !.manualOverrideResponse = NoText]
        m1 == resetWatchdog(m0, callSid, INITIAL_WATCHDOG_MS)
        session == [history |-> Len(m1.hist) + 1,
                    scenario |-> "BOOKING",
                    audioBuffer |-> Len(m1.arrs) + 1,
                    silenceTimer |-> NULL,
                    watchdogTimeout |-> NULL,
                    hasSpoken |-> FALSE,
                    isProcessing |-> FALSE,
                    isEnding |-> FALSE,
                    ws |-> wsArg]
    IN [m1 EXCEPT !.heap = Append(@, session),
                  !.hist = Append(@, <<>>),
                  !.reports = Append(@, 0),
                  !.episode = Append(@, FALSE),
                  !.arrs = Append(@, <<>>),
                  !.activeCalls[callSid] = Len(m1.heap) + 1]

\* startCall(callSid, ws)
startCall(m, callSid, wsArg) ==
    LET m0 == [m EXCEPT !.manualOverrideResponse = NoText]
        m1 == resetWatchdog(m0, callSid, INITIAL_WATCHDOG_MS)
        session == [history |-> Len(m1.hist) + 1,
                    scenario |-> m.nextScenario,
                    audioBuffer |-> Len(m1.arrs) + 1,
                    silenceTimer |-> NULL,
                    watchdogTimeout |-> NULL,
                    hasSpoken |-> FALSE,
                    isProcessing |-> FALSE,
                    isEnding |-> FALSE,
                    ws |-> wsArg]
    IN [m1 EXCEPT !.heap = Append(@, session),
                  !.hist = Append(@, <<>>),
                  !.reports = Append(@, 0),
                  !.episode = Append(@, FALSE),
                  !.arrs = Append(@, <<>>),
                  !.activeCalls[callSid] = Len(m1.heap) + 1]

\* faulty variant of slice: slice(0, n), the first n elements
slice_head(arr, n) == IF Len(arr) <= n THEN arr ELSE SubSeq(arr, 1, n)

\* Array.prototype.slice(-n): a new array of the last n elements
slice(arr, n) == IF Len(arr) <= n THEN arr ELSE SubSeq(arr, Len(arr) - n + 1, Len(arr))

\* rms > LOUDNESS_THRESHOLD
isLoud(rms) == rms > LOUDNESS_THRESHOLD

\* faulty variant of shouldArm: the handle of the session is not looked at
shouldArm_again(rms, c) == rms <= LOUDNESS_THRESHOLD /\ c.hasSpoken

\* faulty variant of preSpeechOverflow: trims as soon as the tail is exceeded
preSpeechOverflow_eager(hasSpoken, length) == ~hasSpoken /\ length > PRE_SPEECH_KEEP

\* !callState.hasSpoken && callState.audioBuffer.length > 150
preSpeechOverflow(hasSpoken, length) == ~hasSpoken /\ length > PRE_SPEECH_CAP

\* faulty variant of inSpeechOverflow: the cap compared off by one
inSpeechOverflow_late(hasSpoken, length) == hasSpoken /\ length > IN_SPEECH_CAP + 1

\* callState.hasSpoken && callState.audioBuffer.length > 1400
inSpeechOverflow(hasSpoken, length) == hasSpoken /\ length > IN_SPEECH_CAP

\* rms <= LOUDNESS_THRESHOLD && callState.hasSpoken && !callState.silenceTimer
shouldArm(rms, c) == rms <= LOUDNESS_THRESHOLD /\ c.hasSpoken /\ c.silenceTimer = NULL

\* setTimeout(async () => {...}, 1200): the pending boundary timer and the
\* locals of the callback it will run (callState, callSid and ws are captured)
NewCycle(o, callSid, wsArg) ==
    [st |-> "armed", callState |-> o, callSid |-> callSid, ws |-> wsArg,
     transcript |-> NoText, isFakeAudio |-> FALSE, upd |-> NULL, reply |-> NoText,
     languageCode |-> NoLanguage, target_language_code |-> NoLanguage,
     len |-> 0, offset |-> 0, snap |-> <<>>, fx |-> <<>>]

\* handleIncomingAudio(callSid, audioChunk, ws, rms), up to arming the timer
handleIncomingAudio(m, callSid, audioChunk, wsArg, rms) ==
    LET o == Get(m, callSid) IN
    IF o = NULL THEN m
    ELSE
    LET c0 == m.heap[o]
        arrs1 == [m.arrs EXCEPT ![c0.audioBuffer] = Append(@, audioChunk)]
        trimPre == preSpeechOverflow(c0.hasSpoken, Len(arrs1[c0.audioBuffer]))
        arrs2 == IF trimPre
                 THEN Append(arrs1, slice(arrs1[c0.audioBuffer], PRE_SPEECH_KEEP))
                 ELSE arrs1
        c1 == IF trimPre THEN [c0 EXCEPT !.audioBuffer = Len(arrs2)] ELSE c0
        trimIn == inSpeechOverflow(c1.hasSpoken, Len(arrs2[c1.audioBuffer]))
        arrs3 == IF trimIn
                 THEN Append(arrs2, slice(arrs2[c1.audioBuffer], IN_SPEECH_CAP))
                 ELSE arrs2
        c2 == IF trimIn THEN [c1 EXCEPT !.audioBuffer = Len(arrs3)] ELSE c1
        cyc1 == IF isLoud(rms) /\ c2.silenceTimer # NULL
                THEN clearTimeout(m.cyc, c2.silenceTimer) ELSE m.cyc
        wd1 == IF isLoud(rms) /\ c2.watchdogTimeout # NULL
               THEN clearTimeout(m.wd, c2.watchdogTimeout) ELSE m.wd
        c3 == IF isLoud(rms)
              THEN [c2 EXCEPT !.silenceTimer = NULL, !.watchdogTimeout = NULL,
                              !.hasSpoken = TRUE]
              ELSE c2
        arm == shouldArm(rms, c3)
        cyc2 == IF arm THEN Append(cyc1, NewCycle(o, callSid, wsArg)) ELSE cyc1
        c4 == IF arm THEN [c3 EXCEPT !.silenceTimer = Len(cyc2)] ELSE c3
    IN [m EXCEPT !.arrs = arrs3, !.cyc = cyc2, !.wd = wd1, !.heap[o] = c4,
                 !.episode[c0.history] = @ \/ isLoud(rms)]

\* the finally block of the boundary-timer callback
cycleFinally(m, t) ==
    LET o == m.cyc[t].callState IN
    [m EXCEPT !.heap[o].isProcessing = FALSE,
              !.heap[o].silenceTimer = NULL,
              !.cyc[t].st = "exited",
              !.cyc[t].len = 0,
              !.cyc[t].offset = 0]

\* log of what a cycle did: the effect and the length of its session's
\* history right after it
Did(m, t, what) ==
    [m EXCEPT !.cyc[t].fx =
        Append(@, [op |-> what,
                   n |-> Len(m.hist[m.heap[m.cyc[t].callState].history])])]

\* the boundary-timer callback, up to the await of streamToText
cycleStart(m, t) ==
    LET o == m.cyc[t].callState
        c == m.heap[o]
    IN Did([m EXCEPT !.heap[o].isProcessing = TRUE,
                     !.cyc[t].snap = m.arrs[c.audioBuffer],
                     !.arrs = Append(@, <<>>),
                     !.heap[o].audioBuffer = Len(m.arrs) + 1,
                     !.heap[o].hasSpoken = FALSE,
                     !.episode[c.history] = FALSE,
                     !.cyc[t].st = "stt"], t, "stt")

\* faulty variant of tooShort: only the empty transcript is rejected
tooShort_empty(transcript) == transcript = NoText

\* !transcript || transcript.trim().length < 2
tooShort(transcript) == transcript = NoText \/ Len(trim(transcript)) < 2

\* streamToText's return value for a raw API text (resultText.trim())
streamToText(raw) == trim(raw)

\* the callback from the return of streamToText to the await of isHallucination
cycleAfterStt(m, t, raw, language_code) ==
    LET transcript == streamToText(raw)
        m1 == [m EXCEPT !.cyc[t].transcript = transcript,
                        !.cyc[t].languageCode = languageCode(language_code)]
    IN IF tooShort(transcript) THEN cycleFinally(m1, t)
       ELSE Did([m1 EXCEPT !.cyc[t].st = "filter"], t, "filter")

\* faulty variant of wsClose: the socket is left as it is
wsClose_skipped(m, conn) == m

\* ws.close() on an open socket starts the closing handshake
wsClose(m, conn) ==
    IF conn # NULL /\ m.ws[conn].readyState = WS_OPEN
    THEN [m EXCEPT !.ws[conn].readyState = WS_CLOSING] ELSE m

\* faulty variant of playDone: the watchdog is not re-armed after playback
playDone_silent(m, t) == cycleFinally(m, t)

\* the tail of playAIResponse after its send loop, then the callback's finally
playDone(m, t) ==
    LET m1 == resetWatchdog(m, m.cyc[t].callSid, REPLY_WATCHDOG_MS)
        m2 == IF Len(m1.wd) > Len(m.wd) THEN Did(m1, t, "rearm") ELSE m1
    IN cycleFinally(m2, t)

\* frames sent so far on socket conn, by the cycles from t on
RECURSIVE framesSent(_, _, _)
framesSent(m, conn, t) ==
    IF t > Len(m.cyc) THEN 0
    ELSE framesSent(m, conn, t + 1)
         + (IF m.cyc[t].ws = conn
            THEN Cardinality({i \in DOMAIN m.cyc[t].fx : m.cyc[t].fx[i].op = "send"})
            ELSE 0)

\* faulty variant of chunkEnd: the last frame is padded to the full size
chunkEnd_padded(offset, length) == offset + CHUNK_SIZE_BYTES

\* mulawArray.slice(offset, offset + CHUNK_SIZE_BYTES) ends where the array
\* ends, if that is earlier
chunkEnd(offset, length) ==
    IF offset + CHUNK_SIZE_BYTES < length THEN offset + CHUNK_SIZE_BYTES ELSE length

\* ws.send(...) of one playback frame, the bytes from `offset` up to chunkEnd
\* of the mulawArray (`of` is its length); k is the frame's place among all
\* frames sent on that socket
wsSend(m, t, offset) ==
    [m EXCEPT !.cyc[t].fx =
        Append(@, [op |-> "send",
                   n |-> Len(m.hist[m.heap[m.cyc[t].callState].history]),
                   k |-> framesSent(m, m.cyc[t].ws, 1) + 1,
                   from |-> offset,
                   to |-> chunkEnd(offset, m.cyc[t].len),
                   of |-> m.cyc[t].len])]

\* faulty variant of playLoop: the transport is not tested before a send
RECURSIVE playLoop_blind(_, _, _)
playLoop_blind(m, t, offset) ==
    IF offset < m.cyc[t].len
    THEN LET m1 == wsSend(m, t, offset) IN
         IF offset \div CHUNK_SIZE_BYTES >= BURST_FRAMES
         THEN [m1 EXCEPT !.cyc[t].offset = offset + CHUNK_SIZE_BYTES,
                         !.cyc[t].st = "play"]
         ELSE playLoop_blind(m1, t, offset + CHUNK_SIZE_BYTES)
    ELSE playDone(m, t)

\* the send loop of playAIResponse from `offset`, up to its next await
RECURSIVE playLoop(_, _, _)
playLoop(m, t, offset) ==
    IF offset < m.cyc[t].len
    THEN IF m.ws[m.cyc[t].ws].readyState # WS_OPEN
         THEN playDone(m, t)
         ELSE LET m1 == wsSend(m, t, offset) IN
              IF offset \div CHUNK_SIZE_BYTES >= BURST_FRAMES
              THEN [m1 EXCEPT !.cyc[t].offset = offset + CHUNK_SIZE_BYTES,
                              !.cyc[t].st = "play"]
              ELSE playLoop(m1, t, offset + CHUNK_SIZE_BYTES)
    ELSE playDone(m, t)

\* playAIResponse(callSid, replyText, ws, languageCode), up to the await of
\* textToStream(replyText, languageCode), which takes its second argument for
\* a language name and posts the target_language_code it maps it to
playAIResponse(m, t, replyText) ==
    LET o == Get(m, m.cyc[t].callSid) IN
    IF o = NULL \/ m.heap[o].isEnding THEN cycleFinally(m, t)
    ELSE Did(Did([m EXCEPT !.hist[m.heap[o].history] = Append(@, AssistantTurn(replyText)),
                           !.heap[o].hasSpoken = TRUE,
                           !.cyc[t].target_language_code =
                               targetLanguageCode(m.cyc[t].languageCode),
                           !.cyc[t].st = "tts"], t, "assistant"), t, "tts")

\* playAIResponse from the return of textToStream (an encoded reply of n
\* bytes; the empty buffer makes wav.fromBuffer throw)
playAfterTts(m, t, n) ==
    IF n = 0 THEN cycleFinally(m, t)
    ELSE IF m.ws[m.cyc[t].ws].readyState = WS_OPEN
         THEN playLoop([m EXCEPT !.cyc[t].len = n], t, 0)
         ELSE cycleFinally(m, t)

\* faulty variant of isWait: the sentinel is compared in another spelling
isWait_lower(replyText) == trim(replyText) = <<"w", "a", "i", "t">>

\* replyText.trim() === "WAIT" / "END_CALL_LOOP"
isWait(replyText) == trim(replyText) = WAIT
isEndCallLoop(replyText) == trim(replyText) = END_CALL_LOOP

\* the callback once replyText and updatedState are known
cycleReply(m, t, replyText, updatedState) ==
    LET callSid == m.cyc[t].callSid
        m1 == [m EXCEPT !.cyc[t].reply = replyText, !.cyc[t].upd = NULL]
    IN
    IF isWait(replyText)
    THEN cycleFinally(Did([m1 EXCEPT !.activeCalls[callSid] = updatedState], t, "set"), t)
    ELSE IF isEndCallLoop(replyText)
    THEN LET h == m1.heap[updatedState].history
             m2 == [m1 EXCEPT !.hist[h] = Append(@, LoopTerminated),
                              !.activeCalls[callSid] = updatedState]
         IN cycleFinally(wsClose(Did(Did(m2, t, "terminal"), t, "set"), m.cyc[t].ws), t)
    ELSE playAIResponse(Did([m1 EXCEPT !.activeCalls[callSid] = updatedState], t, "set"),
                        t, replyText)

\* llmService.processCustomerIntent(transcript, { ...callState,
\* latestReceivedOTP: this.latestReceivedOTP }): the call is made with the OTP
\* the manager holds at that moment
processCustomerIntent(m, t, copy) ==
    LET m1 == [m EXCEPT !.cyc[t].upd = copy, !.cyc[t].st = "llm",
                        !.otpForwarded = @ \/ m.latestReceivedOTP # NULL]
    IN [m1 EXCEPT !.cyc[t].fx =
           Append(@, [op |-> "llm",
                      n |-> Len(m.hist[m.heap[m.cyc[t].callState].history]),
                      latestReceivedOTP |-> m.latestReceivedOTP])]

\* faulty variant of cycleAfterFilter: the pending override is used but not
\* cleared
cycleAfterFilter_sticky(m, t, isFakeAudio) ==
    IF isFakeAudio THEN cycleFinally([m EXCEPT !.cyc[t].isFakeAudio = TRUE], t)
    ELSE
    LET o == m.cyc[t].callState
        h == m.heap[o].history
        m1 == Did([m EXCEPT !.hist[h] = Append(@, UserTurn(m.cyc[t].transcript))], t, "user")
        m2 == [m1 EXCEPT !.heap = Append(@, m1.heap[o])]
        copy == Len(m2.heap)
    IN IF m.manualOverrideResponse # NoText
       THEN cycleReply(Did(m2, t, "override"), t, m.manualOverrideResponse, copy)
       ELSE processCustomerIntent(m2, t, copy)

\* the callback from the return of isHallucination to the await of
\* processCustomerIntent (or, with a manual override pending, to the end of
\* reply handling).  { ...callState } is a new object holding the fields as
\* they are now and sharing the history and audioBuffer arrays.
cycleAfterFilter(m, t, isFakeAudio) ==
    IF isFakeAudio THEN cycleFinally([m EXCEPT !.cyc[t].isFakeAudio = TRUE], t)
    ELSE
    LET o == m.cyc[t].callState
        h == m.heap[o].history
        m1 == Did([m EXCEPT !.hist[h] = Append(@, UserTurn(m.cyc[t].transcript))], t, "user")
        m2 == [m1 EXCEPT !.heap = Append(@, m1.heap[o])]
        copy == Len(m2.heap)
    IN IF m.manualOverrideResponse # NoText
       THEN cycleReply(Did([m2 EXCEPT !.manualOverrideResponse = NoText], t, "override"),
                       t, m.manualOverrideResponse, copy)
       ELSE processCustomerIntent(m2, t, copy)

\* faulty variants of nextScenarioAfter: the scenario test on the wrong
\* scenario; the confirmation flag ignored
nextScenarioAfter_swapped(scenario, isBookingConfirmed) ==
    IF scenario = "CANCELLATION" /\ isBookingConfirmed = "true"
    THEN "CANCELLATION" ELSE "BOOKING"

nextScenarioAfter_unchecked(scenario, isBookingConfirmed) ==
    IF scenario = "BOOKING" THEN "CANCELLATION" ELSE "BOOKING"

\* callState.scenario === 'BOOKING' && report.isBookingConfirmed === true
nextScenarioAfter(scenario, isBookingConfirmed) ==
    IF scenario = "BOOKING" /\ isBookingConfirmed = "true" THEN "CANCELLATION" ELSE "BOOKING"

\* the end of endCall: the report's effect on nextScenario and the removal;
\* the branch for an empty history logs its "Skipped" report and leaves
\* nextScenario alone
endCallFinish(m, o, callSid, kind) ==
    LET c == m.heap[o]
        written == IF kind = "skipped" THEN m.nextScenario
                   ELSE nextScenarioAfter(c.scenario, kind)
    IN [m EXCEPT !.reports[c.history] = @ + 1,
                 !.nextScenario = written,
                 !.activeCalls[callSid] = NULL,
                 !.lastOutcome = [scenario |-> c.scenario, report |-> kind]]

\* endCall after its drain loop, up to the await of generateTestReport
endCallReport(m, o, callSid, e) ==
    LET c == m.heap[o]
        m1 == wsClose(m, c.ws)
    IN IF Len(m1.hist[c.history]) > 0
       THEN IF e = NULL
            THEN [m1 EXCEPT !.ends = Append(@, [st |-> "report", callState |-> o,
                                                 callSid |-> callSid, waitLoops |-> 0,
                                                 graded |-> m1.hist[c.history]])]
            ELSE [m1 EXCEPT !.ends[e].st = "report", !.ends[e].waitLoops = 0,
                            !.ends[e].graded = m1.hist[c.history]]
       ELSE LET m2 == endCallFinish(m1, o, callSid, "skipped") IN
            IF e = NULL THEN m2
            ELSE [m2 EXCEPT !.ends[e].st = "done", !.ends[e].waitLoops = 0]

\* faulty variant of mustWait: the poll count is not tested
mustWait_unbounded(c, waitLoops) == c.isProcessing \/ c.silenceTimer # NULL

\* (callState.isProcessing || callState.silenceTimer) && waitLoops < 60
mustWait(c, waitLoops) ==
    (c.isProcessing \/ c.silenceTimer # NULL) /\ waitLoops < MAX_WAIT_LOOPS

\* the drain loop of endCall at its condition, with waitLoops polls done
endCallDrain(m, o, callSid, e, waitLoops) ==
    IF mustWait(m.heap[o], waitLoops)
    THEN IF e = NULL
         THEN [m EXCEPT !.ends = Append(@, [st |-> "drain", callState |-> o,
                                            callSid |-> callSid, waitLoops |-> waitLoops,
                                            graded |-> <<>>])]
         ELSE [m EXCEPT !.ends[e].waitLoops = waitLoops]
    ELSE endCallReport(m, o, callSid, e)

\* endCall(callSid), up to its first await
endCall(m, callSid) ==
    LET o == Get(m, callSid) IN
    IF o = NULL THEN m
    ELSE IF m.heap[o].isEnding THEN m
    ELSE LET old == m.heap[o].watchdogTimeout
             wd1 == IF old # NULL THEN clearTimeout(m.wd, old) ELSE m.wd
             m1 == [m EXCEPT !.heap[o].isEnding = TRUE,
                             !.heap[o].watchdogTimeout = NULL,
                             !.wd = wd1]
         IN endCallDrain(m1, o, callSid, NULL, 0)

\* faulty variant of watchdogExpired: the terminal turn is put at the front
\* (unshift for push)
watchdogExpired_unshift(m, w) ==
    LET o == m.wd[w].callState
        h == m.heap[o].history
    IN endCall([m EXCEPT !.wd[w].st = "fired",
                         !.hist[h] = <<WatchdogTerminated(m.wd[w].ms)>> \o @],
               m.wd[w].callSid)

\* the watchdog's setTimeout callback
watchdogExpired(m, w) ==
    LET o == m.wd[w].callState
        h == m.heap[o].history
    IN endCall([m EXCEPT !.wd[w].st = "fired",
                         !.hist[h] = Append(@, WatchdogTerminated(m.wd[w].ms))],
               m.wd[w].callSid)

\* ------------------------------------------------------------ volume boost
\* The products of a 16-bit sample and 2.5 are JavaScript numbers with at most
\* one decimal digit; they are held exactly, as integers counting tenths.
Tenths(n) == n * 10

\* ToIntegerOrInfinity: the fraction is dropped, towards zero
truncate(x) == IF x >= 0 THEN x \div Tenths(1) ELSE -((-x) \div Tenths(1))

\* storing a number into an Int16Array element: truncate, then modulo 2^16
\* into the signed range
ToInt16(x) == ((truncate(x) - INT16_MIN) % INT16_VALUES) + INT16_MIN

\* faulty variant of boost: the product is stored without the two range tests
boost_unclamped(sample) == ToInt16(sample * VOLUME_MULTIPLIER_TENTHS)

\* the body of the volume boost loop: the value samples[i] holds afterwards
boost(sample) ==
    LET boosted == sample * VOLUME_MULTIPLIER_TENTHS
        capped == IF boosted > Tenths(INT16_MAX) THEN Tenths(INT16_MAX) ELSE boosted
        floored == IF capped < Tenths(INT16_MIN) THEN Tenths(INT16_MIN) ELSE capped
    IN ToInt16(floored)

\* ---------------------------------------------------------------- actions
\* A budget caps how many objects, timers, frames and suspended teardowns a
\* behaviour may create, and how often one drain loop may poll.
Budget(frames, cycles, watchdogs, objs, endCalls, polls) ==
    [frames |-> frames, cycles |-> cycles, watchdogs |-> watchdogs, objs |-> objs,
     endCalls |-> endCalls, polls |-> polls]

Within(m, B) ==
    /\ Len(m.heap) <= B.objs
    /\ Len(m.cyc) <= B.cycles
    /\ Len(m.wd) <= B.watchdogs
    /\ Len(m.ends) <= B.endCalls
    /\ m.frameCount <= B.frames

Step(m, B) == Within(m, B) /\ Becomes(m)

Receiving(c) == ws[c].readyState = WS_OPEN

\* wss.on('connection')
WsConnect(c, B) ==
    /\ ws[c].readyState = WS_CONNECTING
    /\ Step([Cur EXCEPT !.ws[c].readyState = WS_OPEN], B)

\* ws.on('message'), event 'start'
WsStart(c, callSid, B) ==
    /\ Receiving(c)
    /\ Step(startCall([Cur EXCEPT !.ws[c].callSid = callSid], callSid, NULL), B)

\* ws.on('message'), event 'media'
WsMedia(c, rms, B) ==
    /\ Receiving(c)
    /\ Get(Cur, ws[c].callSid) # NULL
    /\ Step(handleIncomingAudio([Cur EXCEPT !.frameCount = @ + 1,
                                             !.lastFrame = [callSid |-> ws[c].callSid,
                                                            rms |-> rms]],
                                ws[c].callSid, frameCount + 1, c, rms), B)

\* ws.on('message'), event 'stop'
WsStop(c, B) ==
    /\ Receiving(c)
    /\ Get(Cur, ws[c].callSid) # NULL
    /\ Step(endCall(Cur, ws[c].callSid), B)

\* ws.on('close')
WsClosed(c, B) ==
    /\ ws[c].readyState \in {WS_OPEN, WS_CLOSING}
    /\ Step(endCall([Cur EXCEPT !.ws[c].readyState = WS_CLOSED], ws[c].callSid), B)

\* POST /end-test, one iteration of its loop
EndTest(callSid, B) ==
    /\ Get(Cur, callSid) # NULL
    /\ Step(endCall(Cur, callSid), B)

\* a pending boundary timer expires
BoundaryExpires(t, B) ==
    /\ cyc[t].st = "armed"
    /\ Step(cycleStart(Cur, t), B)

\* streamToText returns for a response with the text `raw` and the language
\* code `language_code`
SttReturnsIn(t, raw, language_code, B) ==
    /\ cyc[t].st = "stt"
    /\ Step(cycleAfterStt(Cur, t, raw, language_code), B)

\* streamToText returns for a response that names no language (or fails)
SttReturns(t, raw, B) == SttReturnsIn(t, raw, NoLanguage, B)

FilterReturns(t, isFakeAudio, B) ==
    /\ cyc[t].st = "filter"
    /\ Step(cycleAfterFilter(Cur, t, isFakeAudio), B)

\* processCustomerIntent returns: on success the provider's text and
\* { ...callState, lastIntentProcessed: true }, on failure the apology and the
\* callState it was given; both are the copy made at the call
LlmReturns(t, replyText, B) ==
    /\ cyc[t].st = "llm"
    /\ Step(cycleReply(Cur, t, replyText, cyc[t].upd), B)

TtsReturns(t, n, B) ==
    /\ cyc[t].st = "tts"
    /\ Step(playAfterTts(Cur, t, n), B)

\* the 35 ms pacing delay of the send loop is over
PlayTick(t, B) ==
    /\ cyc[t].st = "play"
    /\ Step(playLoop(Cur, t, cyc[t].offset), B)

WatchdogExpires(w, B) ==
    /\ wd[w].st = "armed"
    /\ Step(watchdogExpired(Cur, w), B)

\* the 100 ms delay of the drain loop is over
EndCallPoll(e, B) ==
    /\ ends[e].st = "drain"
    /\ ends[e].waitLoops < B.polls
    /\ Step(endCallDrain(Cur, ends[e].callState, ends[e].callSid, e, ends[e].waitLoops + 1), B)

\* The dashboard sets callManager.manualOverrideResponse (the out-of-band
\* override of the specification; its route is not part of this server.js).
\* The k-th value set is k letters long, so that values are told apart.
OverrideText(k) == [i \in 1..k |-> "m"]

InjectOverride(B) ==
    /\ injected < MaxOverrides
    /\ Step([Cur EXCEPT !.manualOverrideResponse = OverrideText(injected + 1),
                        !.injected = @ + 1], B)

\* POST /inject-otp with a body that holds an OTP
InjectOtp(otp, B) ==
    Step([Cur EXCEPT !.latestReceivedOTP = otp, !.otpForwarded = FALSE], B)

\* generateTestReport returns
EndCallReported(e, kind, B) ==
    /\ ends[e].st = "report"
    /\ Step(endCallFinish([Cur EXCEPT !.ends[e].st = "done"], ends[e].callState,
                          ends[e].callSid, kind), B)

\* no reply is being boosted
NoPcm == [source |-> <<>>, samples |-> <<>>, i |-> 0]

Init ==
    /\ activeCalls = [s \in CallSids |-> NULL]
    /\ nextScenario = "BOOKING"
    /\ manualOverrideResponse = NoText
    /\ heap = <<>>
    /\ hist = <<>>
    /\ arrs = <<>>
    /\ cyc = <<>>
    /\ wd = <<>>
    /\ ends = <<>>
    /\ ws = [c \in Conns |-> [readyState |-> WS_CONNECTING, callSid |-> NULL]]
    /\ frameCount = 0
    /\ lastFrame = [callSid |-> NULL, rms |-> 0]
    /\ injected = 0
    /\ reports = <<>>
    /\ lastOutcome = [scenario |-> "none", report |-> "none"]
    /\ pcm = NoPcm
    /\ episode = <<>>
    /\ latestReceivedOTP = NULL
    /\ otpForwarded = FALSE

\* ------------------------------------------------- specification Spec
\* A live call: the events of the transport, the timers and the provider
\* completions.  A teardown that has to wait stays suspended here; its
\* continuation is the subject of SpecTeardown.
TurnBudget == Budget(MaxFrames, MaxCycles, MaxWatchdogs, MaxObjs, MaxEndCalls, 0)

Next ==
    \/ \E c \in Conns : WsConnect(c, TurnBudget)
    \/ \E c \in Conns, callSid \in CallSids : WsStart(c, callSid, TurnBudget)
    \/ \E c \in Conns, rms \in RmsValues : WsMedia(c, rms, TurnBudget)
    \/ \E c \in Conns : WsClosed(c, TurnBudget)
    \/ \E t \in DOMAIN cyc : BoundaryExpires(t, TurnBudget)
    \/ \E t \in DOMAIN cyc, raw \in RawTexts : SttReturns(t, raw, TurnBudget)
    \/ \E t \in DOMAIN cyc, f \in BOOLEAN : FilterReturns(t, f, TurnBudget)
    \/ \E t \in DOMAIN cyc, r \in Replies \cup {Apology} : LlmReturns(t, r, TurnBudget)
    \/ \E t \in DOMAIN cyc, n \in AudioLens : TtsReturns(t, n, TurnBudget)
    \/ \E t \in DOMAIN cyc : PlayTick(t, TurnBudget)
    \/ \E w \in DOMAIN wd : WatchdogExpires(w, TurnBudget)

Spec == Init /\ [][Next]_vars

\* ------------------------------------------ specification SpecTeardown
\* Whole calls, one after another or overlapping: every action of Spec and
\* the end-of-call signals with the continuations of endCall, the drain loop
\* polling a few times.
TeardownBudget == Budget(TdFrames, TdCycles, TdWatchdogs, TdObjs, TdEndCalls, TdPolls)

NextTeardown ==
    \/ \E c \in Conns : WsConnect(c, TeardownBudget)
    \/ \E c \in Conns, callSid \in CallSids : WsStart(c, callSid, TeardownBudget)
    \/ \E c \in Conns, rms \in RmsValues : WsMedia(c, rms, TeardownBudget)
    \/ \E c \in Conns : WsStop(c, TeardownBudget)
    \/ \E c \in Conns : WsClosed(c, TeardownBudget)
    \/ \E callSid \in CallSids : EndTest(callSid, TeardownBudget)
    \/ \E t \in DOMAIN cyc : BoundaryExpires(t, TeardownBudget)
    \/ \E t \in DOMAIN cyc, raw \in RawTexts : SttReturns(t, raw, TeardownBudget)
    \/ \E t \in DOMAIN cyc, f \in BOOLEAN : FilterReturns(t, f, TeardownBudget)
    \/ \E t \in DOMAIN cyc, r \in Replies \cup {Apology} : LlmReturns(t, r, TeardownBudget)
    \/ \E t \in DOMAIN cyc, n \in AudioLens : TtsReturns(t, n, TeardownBudget)
    \/ \E t \in DOMAIN cyc : PlayTick(t, TeardownBudget)
    \/ \E w \in DOMAIN wd : WatchdogExpires(w, TeardownBudget)
    \/ \E e \in DOMAIN ends : EndCallPoll(e, TeardownBudget)
    \/ \E e \in DOMAIN ends, kind \in ReportResults : EndCallReported(e, kind, TeardownBudget)

\* The manager between two calls: as constructed, or as a call whose booking
\* was confirmed has left it (nextScenario is the only field of the manager
\* that outlives a call; the objects of finished calls are out of reach).
InitTeardown ==
    \E previous \in {[scenario |-> "none", report |-> "none"],
                     [scenario |-> "BOOKING", report |-> "true"]} :
        /\ activeCalls = [s \in CallSids |-> NULL]
        /\ nextScenario = IF previous.report = "true" THEN "CANCELLATION" ELSE "BOOKING"
        /\ manualOverrideResponse = NoText
        /\ heap = <<>>
        /\ hist = <<>>
        /\ arrs = <<>>
        /\ cyc = <<>>
        /\ wd = <<>>
        /\ ends = <<>>
        /\ ws = [c \in Conns |-> [readyState |-> WS_CONNECTING, callSid |-> NULL]]
        /\ frameCount = 0
        /\ lastFrame = [callSid |-> NULL, rms |-> 0]
        /\ injected = 0
        /\ reports = <<>>
        /\ lastOutcome = previous
        /\ pcm = NoPcm
        /\ episode = <<>>
        /\ latestReceivedOTP = NULL
        /\ otpForwarded = FALSE

SpecTeardown == InitTeardown /\ [][NextTeardown]_vars

\* ---------------------------------------------- specification SpecDrain
\* One call and its teardown, the drain loop polling up to its full count
\* (the budget leaves room for one poll more than the loop's own limit).
DrainBudget ==
    Budget(DrFrames, DrCycles, DrWatchdogs, DrObjs, DrEndCalls, MAX_WAIT_LOOPS + 1)

NextDrain ==
    \/ \E c \in Conns : WsConnect(c, DrainBudget)
    \/ \E c \in Conns, callSid \in CallSids : WsStart(c, callSid, DrainBudget)
    \/ \E c \in Conns, rms \in RmsValues : WsMedia(c, rms, DrainBudget)
    \/ \E c \in Conns : WsStop(c, DrainBudget)
    \/ \E c \in Conns : WsClosed(c, DrainBudget)
    \/ \E callSid \in CallSids : EndTest(callSid, DrainBudget)
    \/ \E t \in DOMAIN cyc : BoundaryExpires(t, DrainBudget)
    \/ \E t \in DOMAIN cyc, raw \in RawTexts : SttReturns(t, raw, DrainBudget)
    \/ \E t \in DOMAIN cyc, f \in BOOLEAN : FilterReturns(t, f, DrainBudget)
    \/ \E t \in DOMAIN cyc, r \in Replies \cup {Apology} : LlmReturns(t, r, DrainBudget)
    \/ \E t \in DOMAIN cyc, n \in AudioLens : TtsReturns(t, n, DrainBudget)
    \/ \E t \in DOMAIN cyc : PlayTick(t, DrainBudget)
    \/ \E w \in DOMAIN wd : WatchdogExpires(w, DrainBudget)
    \/ \E e \in DOMAIN ends : EndCallPoll(e, DrainBudget)
    \/ \E e \in DOMAIN ends, kind \in ReportResults : EndCallReported(e, kind, DrainBudget)

SpecDrain == Init /\ [][NextDrain]_vars

\* The timers of the drain loop fire and generateTestReport settles (it
\* catches its own errors): the continuations of a suspended endCall are
\* eventually run.
SpecDrainFair ==
    /\ SpecDrain
    /\ WF_vars(\E e \in DOMAIN ends : EndCallPoll(e, DrainBudget))
    /\ WF_vars(\E e \in DOMAIN ends, kind \in ReportResults :
                   EndCallReported(e, kind, DrainBudget))

\* ------------------------------------------- specification SpecOverride
\* A live call during which the operator sets manual override values.
OverrideBudget == Budget(OvFrames, OvCycles, OvWatchdogs, OvObjs, OvEndCalls, 0)

NextOverride ==
    \/ \E c \in Conns : WsConnect(c, OverrideBudget)
    \/ \E c \in Conns, callSid \in CallSids : WsStart(c, callSid, OverrideBudget)
    \/ \E c \in Conns, rms \in RmsValues : WsMedia(c, rms, OverrideBudget)
    \/ \E c \in Conns : WsClosed(c, OverrideBudget)
    \/ InjectOverride(OverrideBudget)
    \/ \E t \in DOMAIN cyc : BoundaryExpires(t, OverrideBudget)
    \/ \E t \in DOMAIN cyc, raw \in RawTexts : SttReturns(t, raw, OverrideBudget)
    \/ \E t \in DOMAIN cyc, f \in BOOLEAN : FilterReturns(t, f, OverrideBudget)
    \/ \E t \in DOMAIN cyc, r \in Replies \cup {Apology} : LlmReturns(t, r, OverrideBudget)
    \/ \E t \in DOMAIN cyc, n \in AudioLens : TtsReturns(t, n, OverrideBudget)
    \/ \E t \in DOMAIN cyc : PlayTick(t, OverrideBudget)
    \/ \E w \in DOMAIN wd : WatchdogExpires(w, OverrideBudget)

SpecOverride == Init /\ [][NextOverride]_vars

\* --------------------------------------------- specification SpecBuffer
\* Frame ingestion near the caps.  A call is in progress on connection 1 with
\* a buffer that earlier frames (numbered up to 0, oldest first) have filled:
\* to any length up to the pre-speech cap by quiet frames before the first
\* loud one, to any length up to the in-speech cap by loud frames.
BufferLens(spoken) ==
    {0, PRE_SPEECH_KEEP, PRE_SPEECH_CAP - 1, PRE_SPEECH_CAP}
        \cup (IF spoken THEN {IN_SPEECH_CAP - 1, IN_SPEECH_CAP} ELSE {})

InitBuffer ==
    \E spoken \in BOOLEAN :
        \E n \in BufferLens(spoken) :
            /\ activeCalls = [s \in CallSids |-> IF s = 1 THEN 1 ELSE NULL]
            /\ nextScenario = "BOOKING"
            /\ manualOverrideResponse = NoText
            /\ heap = << [history |-> 1, scenario |-> "BOOKING", audioBuffer |-> 1,
                          silenceTimer |-> NULL, watchdogTimeout |-> NULL,
                          hasSpoken |-> spoken, isProcessing |-> FALSE,
                          isEnding |-> FALSE, ws |-> NULL] >>
            /\ hist = << <<>> >>
            /\ arrs = << [i \in 1..n |-> i - n] >>
            /\ cyc = <<>>
            /\ wd = <<>>
            /\ ends = <<>>
            /\ ws = [c \in Conns |-> IF c = 1 THEN [readyState |-> WS_OPEN, callSid |-> 1]
                                     ELSE [readyState |-> WS_CONNECTING, callSid |-> NULL]]
            /\ frameCount = 0
            /\ lastFrame = [callSid |-> NULL, rms |-> 0]
            /\ injected = 0
            /\ reports = <<0>>
            /\ lastOutcome = [scenario |-> "none", report |-> "none"]
            /\ pcm = NoPcm
            /\ episode = <<spoken>>
            /\ latestReceivedOTP = NULL
            /\ otpForwarded = FALSE

BufferBudget == Budget(BufFrames, BufFrames, 0, 1, 0, 0)

NextBuffer == \E c \in Conns, rms \in RmsValues : WsMedia(c, rms, BufferBudget)

SpecBuffer == InitBuffer /\ [][NextBuffer]_vars

\* ---------------------------------------------- specification SpecQuiet
\* A call whose remote party stays silent: every frame is quiet.
QuietRms == {0, LOUDNESS_THRESHOLD}

QuietBudget == Budget(QtFrames, 0, 0, 1, 0, 0)

NextQuiet ==
    \/ \E c \in Conns : WsConnect(c, QuietBudget)
    \/ \E c \in Conns, callSid \in CallSids : WsStart(c, callSid, QuietBudget)
    \/ \E c \in Conns, rms \in QuietRms : WsMedia(c, rms, QuietBudget)

SpecQuiet == Init /\ [][NextQuiet]_vars

\* ------------------------------------------ specification SpecUtterance
\* One call in which the remote party speaks once and then stays silent: the
\* first frames are loud, all later ones quiet.  Every provider succeeds:
\* the transcript is text, the filter lets it pass, the reply is ordinary
\* speech and the synthesized audio is not empty.  The transport is closed
\* only by the engine; a teardown that has to wait stays suspended.
UtteranceRms(k) == IF k <= LoudFrames THEN LOUDNESS_THRESHOLD + 1 ELSE LOUDNESS_THRESHOLD
Heard == <<"h", "i", " ">>

UtteranceBudget == Budget(UtFrames, UtCycles, UtWatchdogs, UtObjs, UtEndCalls, 0)

NextUtterance ==
    \/ \E c \in Conns : WsConnect(c, UtteranceBudget)
    \/ \E c \in Conns, callSid \in CallSids :
           heap = <<>> /\ WsStart(c, callSid, UtteranceBudget)
    \/ \E c \in Conns : WsMedia(c, UtteranceRms(frameCount + 1), UtteranceBudget)
    \/ \E t \in DOMAIN cyc : BoundaryExpires(t, UtteranceBudget)
    \/ \E t \in DOMAIN cyc : SttReturns(t, Heard, UtteranceBudget)
    \/ \E t \in DOMAIN cyc : FilterReturns(t, FALSE, UtteranceBudget)
    \/ \E t \in DOMAIN cyc : LlmReturns(t, Spoken, UtteranceBudget)
    \/ \E t \in DOMAIN cyc, n \in AudioLens \ {0} : TtsReturns(t, n, UtteranceBudget)
    \/ \E t \in DOMAIN cyc : PlayTick(t, UtteranceBudget)
    \/ \E w \in DOMAIN wd : WatchdogExpires(w, UtteranceBudget)

SpecUtterance == Init /\ [][NextUtterance]_vars

\* -------------------------------------------- specification SpecEpisode
\* One call on a transport that stays open, over a stretch shorter than the
\* watchdog's delay, with replies short enough to be sent in one burst: the
\* frames, the boundary timers and the provider completions.
ShortAudio == {0, CHUNK_SIZE_BYTES + 1}

EpisodeBudget == Budget(EpFrames, EpCycles, EpWatchdogs, EpObjs, 0, 0)

NextEpisode ==
    \/ \E c \in Conns : WsConnect(c, EpisodeBudget)
    \/ \E c \in Conns, callSid \in CallSids :
           heap = <<>> /\ WsStart(c, callSid, EpisodeBudget)
    \/ \E c \in Conns, rms \in RmsValues : WsMedia(c, rms, EpisodeBudget)
    \/ \E t \in DOMAIN cyc : BoundaryExpires(t, EpisodeBudget)
    \/ \E t \in DOMAIN cyc, raw \in RawTexts : SttReturns(t, raw, EpisodeBudget)
    \/ \E t \in DOMAIN cyc, f \in BOOLEAN : FilterReturns(t, f, EpisodeBudget)
    \/ \E t \in DOMAIN cyc, r \in Replies \cup {Apology} : LlmReturns(t, r, EpisodeBudget)
    \/ \E t \in DOMAIN cyc, n \in ShortAudio : TtsReturns(t, n, EpisodeBudget)

SpecEpisode == Init /\ [][NextEpisode]_vars

\* ------------------------------------------- specification SpecLanguage
\* One turn of one call in which the transcription provider names the language
\* it detected.
LanguageBudget == Budget(LgFrames, LgCycles, LgWatchdogs, LgObjs, 0, 0)

NextLanguage ==
    \/ \E c \in Conns : WsConnect(c, LanguageBudget)
    \/ \E c \in Conns, callSid \in CallSids :
           heap = <<>> /\ WsStart(c, callSid, LanguageBudget)
    \/ \E c \in Conns, rms \in RmsValues : WsMedia(c, rms, LanguageBudget)
    \/ \E t \in DOMAIN cyc : BoundaryExpires(t, LanguageBudget)
    \/ \E t \in DOMAIN cyc, raw \in {<<" ", "a">>, Heard},
          language_code \in LanguageCodes \cup {NoLanguage} :
           SttReturnsIn(t, raw, language_code, LanguageBudget)
    \/ \E t \in DOMAIN cyc, f \in BOOLEAN : FilterReturns(t, f, LanguageBudget)
    \/ \E t \in DOMAIN cyc, r \in {WAIT, Spoken} : LlmReturns(t, r, LanguageBudget)
    \/ \E t \in DOMAIN cyc, n \in ShortAudio : TtsReturns(t, n, LanguageBudget)

SpecLanguage == Init /\ [][NextLanguage]_vars

\* ------------------------------------------- specification SpecPlayback
\* One turn of one call whose reply is played: encoded replies of one byte, of
\* one frame less and more a byte, of the burst and of more than the burst,
\* on a transport that the remote party may close at any moment.
ReplyLens ==
    {1, CHUNK_SIZE_BYTES - 1, CHUNK_SIZE_BYTES, CHUNK_SIZE_BYTES + 1,
     2 * CHUNK_SIZE_BYTES, BURST_FRAMES * CHUNK_SIZE_BYTES,
     (BURST_FRAMES + 1) * CHUNK_SIZE_BYTES + 1, (BURST_FRAMES + 3) * CHUNK_SIZE_BYTES}

PlaybackBudget == Budget(PbFrames, PbCycles, PbWatchdogs, PbObjs, 1, 0)

NextPlayback ==
    \/ \E c \in Conns : WsConnect(c, PlaybackBudget)
    \/ \E c \in Conns, callSid \in CallSids :
           heap = <<>> /\ WsStart(c, callSid, PlaybackBudget)
    \/ \E c \in Conns, rms \in RmsValues : WsMedia(c, rms, PlaybackBudget)
    \/ \E c \in Conns : WsClosed(c, PlaybackBudget)
    \/ \E t \in DOMAIN cyc : BoundaryExpires(t, PlaybackBudget)
    \/ \E t \in DOMAIN cyc : SttReturns(t, Heard, PlaybackBudget)
    \/ \E t \in DOMAIN cyc : FilterReturns(t, FALSE, PlaybackBudget)
    \/ \E t \in DOMAIN cyc : LlmReturns(t, Spoken, PlaybackBudget)
    \/ \E t \in DOMAIN cyc, n \in ReplyLens : TtsReturns(t, n, PlaybackBudget)
    \/ \E t \in DOMAIN cyc : PlayTick(t, PlaybackBudget)

SpecPlayback == Init /\ [][NextPlayback]_vars

\* ------------------------------------------------ specification SpecOtp
\* Calls during which the dashboard injects OTP values: one call and the
\* calls that replace it, with turns that pass the filter.
Otps == 1..NumOtps

OtpBudget == Budget(OtFrames, OtCycles, OtWatchdogs, OtObjs, 0, 0)

NextOtp ==
    \/ \E c \in Conns : WsConnect(c, OtpBudget)
    \/ \E c \in Conns, callSid \in CallSids : WsStart(c, callSid, OtpBudget)
    \/ \E c \in Conns, rms \in RmsValues : WsMedia(c, rms, OtpBudget)
    \/ \E otp \in Otps : InjectOtp(otp, OtpBudget)
    \/ \E t \in DOMAIN cyc : BoundaryExpires(t, OtpBudget)
    \/ \E t \in DOMAIN cyc : SttReturns(t, Heard, OtpBudget)
    \/ \E t \in DOMAIN cyc : FilterReturns(t, FALSE, OtpBudget)
    \/ \E t \in DOMAIN cyc, r \in {WAIT, Spoken} : LlmReturns(t, r, OtpBudget)
    \/ \E t \in DOMAIN cyc, n \in ShortAudio : TtsReturns(t, n, OtpBudget)

SpecOtp == Init /\ [][NextOtp]_vars

\* --------------------------------------------- specification SpecRecall
\* One call in which the remote party speaks, pauses and speaks once more: the
\* first frame and frame RcLoudFrame are loud, every other frame is quiet.
\* The transcript is text, the filter lets it pass and the generation provider
\* answers WAIT.  Timers fire, provider calls settle and the frames keep
\* arriving (up to the budget).
RecallRms(k) ==
    IF k \in {1, RcLoudFrame} THEN LOUDNESS_THRESHOLD + 1 ELSE LOUDNESS_THRESHOLD

RecallBudget == Budget(RcFrames, RcCycles, RcWatchdogs, RcObjs, 0, 0)

RecallFrameArrives == \E c \in Conns : WsMedia(c, RecallRms(frameCount + 1), RecallBudget)
RecallTimerFires == \E t \in DOMAIN cyc : BoundaryExpires(t, RecallBudget)
RecallSttSettles == \E t \in DOMAIN cyc : SttReturns(t, Heard, RecallBudget)
RecallFilterSettles == \E t \in DOMAIN cyc : FilterReturns(t, FALSE, RecallBudget)
RecallLlmSettles == \E t \in DOMAIN cyc : LlmReturns(t, WAIT, RecallBudget)

NextRecall ==
    \/ \E c \in Conns : WsConnect(c, RecallBudget)
    \/ \E c \in Conns, callSid \in CallSids :
           heap = <<>> /\ WsStart(c, callSid, RecallBudget)
    \/ RecallFrameArrives
    \/ RecallTimerFires
    \/ RecallSttSettles
    \/ RecallFilterSettles
    \/ RecallLlmSettles

SpecRecall ==
    /\ Init
    /\ [][NextRecall]_vars
    /\ WF_vars(NextRecall)
    /\ WF_vars(RecallFrameArrives)
    /\ WF_vars(RecallTimerFires)
    /\ WF_vars(RecallSttSettles)
    /\ WF_vars(RecallFilterSettles)
    /\ WF_vars(RecallLlmSettles)

\* ----------------------------------------------- specification SpecGain
\* The volume boost loop of playAIResponse over the decoded reply, which holds
\* one sample of any 16-bit value.
Int16 == INT16_MIN..INT16_MAX

\* one iteration of the for loop
BoostSample ==
    /\ pcm.i < Len(pcm.samples)
    /\ Becomes([Cur EXCEPT !.pcm.samples[pcm.i + 1] = boost(@), !.pcm.i = @ + 1])

InitGain ==
    \E sample \in Int16 :
        /\ activeCalls = [s \in CallSids |-> NULL]
        /\ nextScenario = "BOOKING"
        /\ manualOverrideResponse = NoText
        /\ heap = <<>>
        /\ hist = <<>>
        /\ arrs = <<>>
        /\ cyc = <<>>
        /\ wd = <<>>
        /\ ends = <<>>
        /\ ws = [c \in Conns |-> [readyState |-> WS_CONNECTING, callSid |-> NULL]]
        /\ frameCount = 0
        /\ lastFrame = [callSid |-> NULL, rms |-> 0]
        /\ injected = 0
        /\ reports = <<>>
        /\ lastOutcome = [scenario |-> "none", report |-> "none"]
        /\ pcm = [source |-> <<sample>>, samples |-> <<sample>>, i |-> 0]
        /\ episode = <<>>
        /\ latestReceivedOTP = NULL
        /\ otpForwarded = FALSE

NextGain == BoostSample

SpecGain == InitGain /\ [][NextGain]_vars

\* ------------------------------------------------------------ properties
\* The callState objects of one session (startCall's and its copies) share
\* one history array, which identifies the session.
Session(o) == heap[o].history
CycleSession(t) == Session(cyc[t].callState)
InFlight(t) == cyc[t].st \in {"stt", "filter", "llm", "tts", "play"}
ArmedBoundary(t) == cyc[t].st = "armed"
ArmedWatchdog(w) == wd[w].st = "armed"
FxOps(t) == {cyc[t].fx[i].op : i \in DOMAIN cyc[t].fx}
FxAt(t, what) == {i \in DOMAIN cyc[t].fx : cyc[t].fx[i].op = what}
\* the step ingests a frame
Ingests == frameCount' = frameCount + 1
\* the registered callState object of the session the last frame went to
FrameTarget == activeCalls[lastFrame.callSid]
ConfirmedBooking == [scenario |-> "BOOKING", report |-> "true"]
\* the step is a startCall
StartsCall == Len(hist') = Len(hist) + 1

\* C1: at every instant at most one turn cycle of a session is in flight (from
\* the boundary callback setting isProcessing to its finally block), for every
\* interleaving of frames, timer expiries and provider completions.
C1_OneCycleInFlight ==
    \A t1, t2 \in DOMAIN cyc :
        (InFlight(t1) /\ InFlight(t2) /\ CycleSession(t1) = CycleSession(t2)) => t1 = t2

\* C2: however often and in whatever interleaving endCall is invoked for a
\* session, the session gets exactly one report (and one registry removal):
\* never a second one.
C2_OneReportPerSession == \A h \in DOMAIN reports : reports[h] <= 1

\* C3: a session has at most one armed boundary timer at any instant, and the
\* handle of an armed boundary timer is still held by a callState object of
\* its session (it was not dropped or overwritten before being cancelled).
C3_OneArmedBoundaryTimer ==
    /\ \A t1, t2 \in DOMAIN cyc :
           (ArmedBoundary(t1) /\ ArmedBoundary(t2) /\ CycleSession(t1) = CycleSession(t2))
               => t1 = t2
    /\ \A t \in DOMAIN cyc :
           ArmedBoundary(t) =>
               \E o \in DOMAIN heap : Session(o) = CycleSession(t) /\ heap[o].silenceTimer = t

\* C4: ingesting a loud frame leaves its session with hasSpoken = true, no
\* armed boundary timer and no armed watchdog, whatever went before.
LoudFramePost ==
    FrameTarget # NULL =>
        /\ heap[FrameTarget].hasSpoken
        /\ \A t \in DOMAIN cyc : ArmedBoundary(t) => CycleSession(t) # Session(FrameTarget)
        /\ \A w \in DOMAIN wd :
               ArmedWatchdog(w) => Session(wd[w].callState) # Session(FrameTarget)

C4_LoudFrameDisarms == [][(Ingests /\ isLoud(lastFrame'.rms)) => LoudFramePost']_vars

\* C5: after each ingested frame the session's buffer holds at most 150
\* frames while hasSpoken is false and at most 1400 while it is true.
BufferWithinCap ==
    FrameTarget # NULL =>
        LET c == heap[FrameTarget] IN
        Len(arrs[c.audioBuffer]) <= IF c.hasSpoken THEN IN_SPEECH_CAP ELSE PRE_SPEECH_CAP

C5_BufferWithinCap == [][Ingests => BufferWithinCap']_vars

C5_TrimmedAtInSpeechCap ==
    /\ frameCount > 0
    /\ FrameTarget # NULL
    /\ heap[FrameTarget].hasSpoken
    /\ Len(arrs[heap[FrameTarget].audioBuffer]) = IN_SPEECH_CAP
    /\ \E a \in DOMAIN arrs : Len(arrs[a]) > IN_SPEECH_CAP

\* C6: when ingestion trims, the new buffer is exactly the last 50 (trimming
\* pre-speech) or last 1400 (trimming in-speech) of the old buffer followed by
\* the frame just ingested, in arrival order; it ends with that frame, and
\* every dropped frame is older than every retained one.
TrimKeepsMostRecent ==
    LET o == activeCalls[lastFrame'.callSid]
        before == Append(arrs[heap[o].audioBuffer], frameCount')
        after == arrs'[heap'[o].audioBuffer]
        keep == IF heap[o].hasSpoken THEN IN_SPEECH_CAP ELSE PRE_SPEECH_KEEP
    IN /\ Len(after) = keep
       /\ \A i \in 1..keep : after[i] = before[Len(before) - keep + i]
       /\ after[Len(after)] = frameCount'
       /\ \A j \in 1..(Len(before) - keep) : \A i \in 1..keep : before[j] < after[i]

C6_TrimKeepsMostRecent ==
    [][(/\ Ingests
        /\ activeCalls[lastFrame'.callSid] # NULL
        /\ heap'[activeCalls[lastFrame'.callSid]].audioBuffer
               # heap[activeCalls[lastFrame'.callSid]].audioBuffer)
        => TrimKeepsMostRecent]_vars

C6_TrimmedPreSpeech ==
    /\ frameCount > 0
    /\ FrameTarget # NULL
    /\ LET buf == arrs[heap[FrameTarget].audioBuffer] IN
           /\ Len(buf) = PRE_SPEECH_KEEP
           /\ buf[Len(buf)] = frameCount
           /\ buf[1] = frameCount - PRE_SPEECH_KEEP + 1
    /\ \E a \in DOMAIN arrs : Len(arrs[a]) > PRE_SPEECH_CAP

\* C7: a turn cycle whose reply is exactly WAIT sends no playback frame, makes
\* no synthesis call, appends no assistant turn and does not re-arm the
\* watchdog; the user turn it appended for its transcript is in the history.
C7_WaitIsSilent ==
    \A t \in DOMAIN cyc :
        cyc[t].reply = WAIT =>
            /\ FxOps(t) \cap {"send", "tts", "assistant", "terminal", "rearm"} = {}
            /\ \E i \in FxAt(t, "user") :
                   LET h == hist[CycleSession(t)] IN
                   /\ cyc[t].fx[i].n <= Len(h)
                   /\ h[cyc[t].fx[i].n] = UserTurn(cyc[t].transcript)

C7_WaitCycleExited == \E t \in DOMAIN cyc : cyc[t].reply = WAIT /\ cyc[t].st = "exited"

\* C8: a turn cycle whose reply is exactly END_CALL_LOOP appends one synthetic
\* terminal assistant turn to the session's history, closes the transport
\* connection, and sends no playback frame.
C8_EndCallLoopTerminates ==
    \A t \in DOMAIN cyc :
        cyc[t].reply = END_CALL_LOOP =>
            /\ Cardinality(FxAt(t, "terminal")) = 1
            /\ \A i \in FxAt(t, "terminal") :
                   LET h == hist[CycleSession(t)] IN
                   /\ cyc[t].fx[i].n <= Len(h)
                   /\ h[cyc[t].fx[i].n] = LoopTerminated
            /\ ws[cyc[t].ws].readyState \in {WS_CLOSING, WS_CLOSED}
            /\ FxOps(t) \cap {"send", "tts", "assistant"} = {}

C8_LoopCycleExited ==
    \E t \in DOMAIN cyc : cyc[t].reply = END_CALL_LOOP /\ cyc[t].st = "exited"

\* C9: when a BOOKING session's teardown ends with a report whose
\* isBookingConfirmed is true, nextScenario is CANCELLATION, and a session
\* that startCall creates next gets scenario CANCELLATION.
C9_ConfirmedBookingFlips ==
    [][/\ lastOutcome' = ConfirmedBooking => nextScenario' = "CANCELLATION"
       /\ (StartsCall /\ lastOutcome = ConfirmedBooking)
              => heap'[Len(heap')].scenario = "CANCELLATION"]_vars

C9_CancellationCallStarted ==
    /\ lastOutcome = ConfirmedBooking
    /\ \E callSid \in CallSids :
           /\ activeCalls[callSid] # NULL
           /\ heap[activeCalls[callSid]].scenario = "CANCELLATION"
           /\ reports[Session(activeCalls[callSid])] = 0

\* C10 as stated: after a teardown with any outcome other than a confirmed
\* booking (a CANCELLATION session, an unconfirmed booking, a failed report,
\* an empty history) nextScenario is BOOKING, and a session that startCall
\* creates next gets scenario BOOKING.
OtherOutcome(outcome) == outcome.report # "none" /\ outcome # ConfirmedBooking

C10_OtherOutcomeResets ==
    [][/\ OtherOutcome(lastOutcome') => nextScenario' = "BOOKING"
       /\ (StartsCall /\ OtherOutcome(lastOutcome))
              => heap'[Len(heap')].scenario = "BOOKING"]_vars

\* C10 as the code has it: after a teardown that produced a graded report other
\* than a confirmed booking (a CANCELLATION session, an unconfirmed booking, a
\* failed report) nextScenario is BOOKING and a session that startCall creates
\* next gets scenario BOOKING; a teardown with empty history leaves nextScenario
\* as it was.
GradedOtherOutcome(outcome) ==
    outcome.report \in ReportResults /\ outcome # ConfirmedBooking

C10_GradedOutcomeResets ==
    [][/\ GradedOtherOutcome(lastOutcome') => nextScenario' = "BOOKING"
       /\ (StartsCall /\ GradedOtherOutcome(lastOutcome))
              => heap'[Len(heap')].scenario = "BOOKING"
       /\ (reports' # reports /\ lastOutcome'.report = "skipped")
              => nextScenario' = nextScenario]_vars

C10_CancellationCallGraded ==
    /\ lastOutcome.scenario = "CANCELLATION"
    /\ lastOutcome.report \in ReportResults
    /\ nextScenario = "BOOKING"

\* C11: right after startCall has created a session, that session has a
\* watchdog armed with the initial duration (120 s).
NewSessionHasWatchdog ==
    LET o == Len(heap) IN
    /\ heap[o].watchdogTimeout # NULL
    /\ ArmedWatchdog(heap[o].watchdogTimeout)
    /\ wd[heap[o].watchdogTimeout].ms = INITIAL_WATCHDOG_MS
    /\ Session(wd[heap[o].watchdogTimeout].callState) = Session(o)

C11_InitialWatchdogArmed == [][StartsCall => NewSessionHasWatchdog']_vars

\* C12: when a watchdog expires, its terminal turn is appended to the history
\* of its session and endCall tears that session down: the session is
\* registered and ending, it was not graded before, and every grading of it
\* gets a history that holds the turn.
Elements(seq) == {seq[i] : i \in DOMAIN seq}

WatchdogTearsDown(w) ==
    LET h == Session(wd[w].callState)
        turn == WatchdogTerminated(wd[w].ms)
        o == activeCalls'[wd[w].callSid]
    IN /\ hist'[h] = Append(hist[h], turn)
       /\ reports[h] = 0
       /\ o # NULL
       /\ heap'[o].history = h
       /\ heap'[o].isEnding

GradedWithWatchdogTurn ==
    \A w \in DOMAIN wd : \A e \in DOMAIN ends :
        (/\ wd[w].st = "fired"
         /\ ends[e].st \in {"report", "done"}
         /\ Session(ends[e].callState) = Session(wd[w].callState))
            => WatchdogTerminated(wd[w].ms) \in Elements(ends[e].graded)

C12_WatchdogTearsDown ==
    [][/\ \A w \in DOMAIN wd :
              (wd[w].st = "armed" /\ wd'[w].st = "fired") => WatchdogTearsDown(w)
       /\ GradedWithWatchdogTurn']_vars

\* C13: at every instant a session has at most one armed watchdog timer.
C13_OneArmedWatchdog ==
    \A w1, w2 \in DOMAIN wd :
        (/\ ArmedWatchdog(w1)
         /\ ArmedWatchdog(w2)
         /\ Session(wd[w1].callState) = Session(wd[w2].callState))
            => w1 = w2

\* C14: a cycle that ends having played its synthesized reply on a transport
\* that is open leaves the watchdog of the session registered under its call
\* id (if one still is) armed with the post-reply duration (45 s); a cycle that was abandoned (short
\* transcript, flagged transcript, no synthesized audio) or whose reply is a
\* control token never re-arms the watchdog.
CycleExits(t) == cyc[t].st # "exited" /\ cyc'[t].st = "exited"

Abandoned(t) ==
    \/ "user" \notin FxOps(t)
    \/ "send" \notin FxOps(t)
    \/ trim(cyc[t].reply) \in {WAIT, END_CALL_LOOP}

ReplyWatchdogArmed(callSid) ==
    LET o == activeCalls[callSid] IN
        /\ heap[o].watchdogTimeout # NULL
        /\ ArmedWatchdog(heap[o].watchdogTimeout)
        /\ wd[heap[o].watchdogTimeout].ms = REPLY_WATCHDOG_MS

SessionIdle(callSid) ==
    LET o == activeCalls[callSid] IN
    /\ o # NULL
    /\ ~heap[o].isProcessing
    /\ heap[o].silenceTimer = NULL

C15_ExitClearsSession ==
    [][\A t \in DOMAIN cyc : CycleExits(t) => SessionIdle(cyc[t].callSid)']_vars

\* C16: a session is removed from the registry only when none of its turn
\* cycles is in flight and none of its boundary timers is armed, and only
\* after a report for it has been emitted.
Removed(callSid) == activeCalls[callSid] # NULL /\ activeCalls'[callSid] = NULL

Quiescent(h) ==
    \A t \in DOMAIN cyc : CycleSession(t) = h => ~InFlight(t) /\ ~ArmedBoundary(t)

C16_RemovedOnlyWhenDrained ==
    [][\A callSid \in CallSids :
           Removed(callSid) =>
               /\ Quiescent(Session(activeCalls[callSid]))
               /\ reports'[Session(activeCalls[callSid])] >= 1]_vars

\* C17: every endCall that starts a teardown terminates: its drain loop polls
\* at most 60 times, and when it ends the session's report has been emitted
\* and the registry entry of its call id is removed, whatever the report
\* generation returned.
EndCallFinishes(e) == ends[e].st # "done" /\ ends'[e].st = "done"

C17_EndCallTerminates ==
    /\ [](\A e \in DOMAIN ends : ends[e].waitLoops <= MAX_WAIT_LOOPS)
    /\ [][\A e \in DOMAIN ends :
              EndCallFinishes(e) =>
                  /\ reports'[Session(ends[e].callState)] = reports[Session(ends[e].callState)] + 1
                  /\ activeCalls'[ends[e].callSid] = NULL]_vars
    /\ <>[](\A e \in DOMAIN ends : ends[e].st = "done")

C17_DrainedToTheLimit ==
    \E e \in DOMAIN ends :
        /\ ends[e].st = "done"
        /\ reports[Session(ends[e].callState)] >= 1
        /\ heap[ends[e].callState].isProcessing

\* C18: once endCall has started the teardown of a session, neither a
\* boundary timer nor a watchdog timer of that session fires any more.
Ending(h) == \E o \in DOMAIN heap : Session(o) = h /\ heap[o].isEnding

C18_NoTimerAfterTeardown ==
    [][/\ \A t \in DOMAIN cyc :
              (ArmedBoundary(t) /\ cyc'[t].st = "stt") => ~Ending(CycleSession(t))
       /\ \A w \in DOMAIN wd :
              (ArmedWatchdog(w) /\ wd'[w].st = "fired") => ~Ending(Session(wd[w].callState))]_vars

\* C19: a manual override value is the reply of at most one turn; the cycle
\* that reaches reply resolution while a value is pending takes that value as
\* its reply without calling the language-generation provider and clears it
\* in the same step.
ResolvesReply(t) == cyc[t].st = "filter" /\ cyc'[t].st # "filter" /\ ~cyc'[t].isFakeAudio

UsedOnce ==
    \A k \in 1..injected :
        Cardinality({t \in DOMAIN cyc : cyc[t].reply = OverrideText(k)}) <= 1

C19_OverrideUsedOnce ==
    [][/\ UsedOnce'
       /\ \A t \in DOMAIN cyc :
              (ResolvesReply(t) /\ manualOverrideResponse # NoText)
                  => /\ cyc'[t].reply = manualOverrideResponse
                     /\ manualOverrideResponse' = NoText
                     /\ "llm" \notin FxOps(t)'
                     /\ "override" \in FxOps(t)']_vars

C19_OverrideThenProvider ==
    \E t1, t2 \in DOMAIN cyc :
        /\ t1 < t2
        /\ "override" \in FxOps(t1)
        /\ cyc[t1].reply = OverrideText(1)
        /\ "llm" \in FxOps(t2)
        /\ cyc[t2].reply \in Replies

\* A cycle leaves transcription, or the hallucination filter, in this step.
SttSettles(t) == cyc[t].st = "stt" /\ cyc'[t].st # "stt"
FilterSettles(t) == cyc[t].st = "filter" /\ cyc'[t].st # "filter"

\* C20: a cycle whose transcript is empty or shorter than 2 characters, or is
\* flagged by the hallucination filter, is abandoned there with the history
\* unchanged: it appends no user turn and makes no generation call, no
\* synthesis call and no playback.
C20_NoiseIsAbandoned ==
    [][\A t \in DOMAIN cyc :
           (\/ SttSettles(t) /\ Len(cyc'[t].transcript) < 2
            \/ FilterSettles(t) /\ cyc'[t].isFakeAudio)
               => /\ cyc'[t].st = "exited"
                  /\ hist' = hist
                  /\ FxOps(t)' \subseteq {"stt", "filter"}]_vars

C20_ShortAndFlaggedAbandoned ==
    \E t1, t2 \in DOMAIN cyc :
        /\ cyc[t1].st = "exited"
        /\ Len(cyc[t1].transcript) = 1
        /\ cyc[t2].st = "exited"
        /\ cyc[t2].isFakeAudio

\* C21: for every 16-bit sample s the volume boost stores 2.5*s truncated
\* towards zero and clamped to [-32768, 32767]: a product outside the range
\* gives the range bound, the stored value never wraps, and a non-zero stored
\* value has the sign of s.
Abs(n) == IF n < 0 THEN -n ELSE n
Sign(n) == IF n < 0 THEN -1 ELSE IF n > 0 THEN 1 ELSE 0

GainContract(s, out) ==
    /\ out \in Int16
    /\ IF 5 * s > 2 * INT16_MAX THEN out = INT16_MAX
       ELSE IF 5 * s < 2 * INT16_MIN THEN out = INT16_MIN
       ELSE /\ 2 * Abs(out) <= 5 * Abs(s)
            /\ 5 * Abs(s) < 2 * (Abs(out) + 1)
    /\ out # 0 => Sign(out) = Sign(s)

C21_GainClamps == \A k \in 1..pcm.i : GainContract(pcm.source[k], pcm.samples[k])

C21_ProductAboveRangeClamped ==
    /\ pcm.i = 1
    /\ 5 * pcm.source[1] > 2 * INT16_MAX
    /\ pcm.source[1] < INT16_MAX
    /\ pcm.samples[1] = INT16_MAX

\* the audio buffer of the session the last frame went to
FrameBuffer == arrs[heap[FrameTarget].audioBuffer]

NoBoundaryArmed ==
    /\ heap[FrameTarget].silenceTimer = NULL
    /\ \A t \in DOMAIN cyc : ~ArmedBoundary(t)

\* C22 as stated: a fresh session that has ingested 60 quiet frames and no
\* loud one has its buffer trimmed to the rolling tail (the last 50 frames),
\* no boundary timer armed and hasSpoken false.
C22_QuietFramesTrimmed ==
    (frameCount = QuietFrames /\ FrameTarget # NULL) =>
        /\ Len(FrameBuffer) <= PRE_SPEECH_KEEP
        /\ NoBoundaryArmed
        /\ ~heap[FrameTarget].hasSpoken

\* C22 as the code has it: a fresh session that has ingested 60 quiet frames
\* and no loud one holds all 60 frames in arrival order, untrimmed, with no
\* boundary timer armed and hasSpoken false; the buffer is cut to the rolling
\* tail only once it has exceeded 150 frames.
C22_QuietFramesBuffered ==
    (frameCount > 0 /\ FrameTarget # NULL) =>
        /\ frameCount = QuietFrames => FrameBuffer = [i \in 1..QuietFrames |-> i]
        /\ Len(FrameBuffer) < frameCount => frameCount > PRE_SPEECH_CAP
        /\ NoBoundaryArmed
        /\ ~heap[FrameTarget].hasSpoken

C22_SixtyQuietFramesHeld ==
    /\ frameCount = QuietFrames
    /\ FrameTarget # NULL
    /\ Len(FrameBuffer) = QuietFrames
    /\ ~isLoud(lastFrame.rms)

\* how often the cycles have made a provider call of one kind
RECURSIVE CallsFrom(_, _)
CallsFrom(t, what) ==
    IF t > Len(cyc) THEN 0 ELSE Cardinality(FxAt(t, what)) + CallsFrom(t + 1, what)

Calls(what) == CallsFrom(1, what)

\* every frame of the utterance has arrived and every boundary timer that was
\* armed has fired and run its callback to the end
UtteranceOver ==
    /\ frameCount = UtFrames
    /\ cyc # <<>>
    /\ \A t \in DOMAIN cyc : cyc[t].st = "exited"

\* C23: in a fresh session with succeeding providers and an ordinary reply,
\* 100 loud frames followed by quiet frames only lead to exactly one
\* transcription call, one generation call and one synthesis call: none while
\* the loud frames arrive, never a second of any kind, and one of each once
\* the frames have arrived and the callbacks have run.
C23_OneCallOfEachKind ==
    /\ \A what \in {"stt", "llm", "tts"} : Calls(what) <= 1
    /\ frameCount <= LoudFrames => Calls("stt") = 0
    /\ UtteranceOver => \A what \in {"stt", "llm", "tts"} : Calls(what) = 1

C23_UtteranceAnswered ==
    /\ UtteranceOver
    /\ \E t \in DOMAIN cyc :
           /\ cyc[t].st = "exited"
           /\ Len(cyc[t].snap) > LoudFrames
           /\ {"stt", "llm", "tts", "send", "rearm"} \subseteq FxOps(t)
    /\ \A what \in {"stt", "llm", "tts"} : Calls(what) = 1

\* the object startCall has just created is a fresh session with arrays of
\* its own
FreshSession(o) ==
    /\ hist[heap[o].history] = <<>>
    /\ arrs[heap[o].audioBuffer] = <<>>
    /\ ~heap[o].hasSpoken
    /\ ~heap[o].isProcessing
    /\ ~heap[o].isEnding
    /\ \A p \in DOMAIN heap :
           p # o => (heap[p].history # heap[o].history
                     /\ heap[p].audioBuffer # heap[o].audioBuffer)

NewestIsFresh == FreshSession(Len(heap))

\* C24: startCall(id) leaves the registry mapping id to one fresh session:
\* empty history, empty buffer, hasSpoken, isProcessing and isEnding false, and
\* the scenario nextScenario had at the call; a session registered for id
\* before is overwritten, and no other id's entry changes.
C24_StartCallRegistersFresh ==
    [][StartsCall =>
           \E callSid \in CallSids :
               /\ activeCalls'[callSid] = Len(heap')
               /\ NewestIsFresh'
               /\ heap'[Len(heap')].scenario = nextScenario
               /\ \A other \in CallSids \ {callSid} :
                      activeCalls'[other] = activeCalls[other]]_vars

C24_LiveSessionOverwritten ==
    \E callSid \in CallSids :
        LET o == activeCalls[callSid] IN
        /\ o # NULL
        /\ heap[o].history = Len(hist)
        /\ hist[heap[o].history] = <<>>
        /\ heap[o].scenario = "CANCELLATION"
        /\ \E p \in DOMAIN heap :
               /\ heap[p].history < heap[o].history
               /\ heap[p].hasSpoken
               /\ reports[heap[p].history] = 0
               /\ ~heap[p].isEnding
               /\ heap[p].watchdogTimeout # NULL
               /\ ArmedWatchdog(heap[p].watchdogTimeout)

\* playback frames a cycle has sent so far
Sent(t) == Cardinality(FxAt(t, "send"))
TransportOpen(t) == ws[cyc[t].ws].readyState = WS_OPEN

\* C25: a playback frame is sent only on a transport that is open at the
\* send; a reply whose transport is found not open when its next frame is due
\* sends none of its remaining frames: its cycle ends there, and a cycle that
\* has ended sends nothing.
C25_SendOnlyOnOpenTransport ==
    [][\A t \in DOMAIN cyc :
           /\ Sent(t)' > Sent(t) => (TransportOpen(t) /\ TransportOpen(t)')
           /\ (cyc[t].st = "play" /\ ~TransportOpen(t) /\ cyc'[t] # cyc[t])
                  => (cyc'[t].st = "exited" /\ Sent(t)' = Sent(t))
           /\ cyc[t].st = "exited" => Sent(t)' = Sent(t)]_vars

C25_PlaybackCutShort ==
    \E t \in DOMAIN cyc :
        /\ cyc[t].st = "exited"
        /\ Sent(t) = BURST_FRAMES + 1
        /\ ~TransportOpen(t)
        /\ "rearm" \notin FxOps(t)

\* the places, among all frames sent on its socket, of the frames of cycle t
Places(t) == {cyc[t].fx[i].k : i \in FxAt(t, "send")}

\* C26: on one session's transport the playback frames of two replies are
\* never interleaved: no frame of one reply is sent between two frames of
\* another.
C26_RepliesNotInterleaved ==
    \A t1, t2 \in DOMAIN cyc :
        (t1 # t2 /\ cyc[t1].ws = cyc[t2].ws /\ CycleSession(t1) = CycleSession(t2)) =>
            ~ \E a, c \in Places(t1) : \E b \in Places(t2) : a < b /\ b < c

IsPrefix(a, b) == Len(a) <= Len(b) /\ SubSeq(b, 1, Len(a)) = a

\* endCall e hands the history to generateTestReport in this step
HandsToGrading(e) ==
    /\ ends'[e].st = "report"
    /\ e \in DOMAIN ends => ends[e].st # "report"

\* C27: a session's history only grows at its end: through every step (turn
\* cycles, watchdog expiry, registering updatedState, teardown) each history
\* array extends what it held before; the objects of a session keep pointing
\* at the one array, a new array comes only with a new session, and the
\* sequence handed to grading is that array as the cycles and the watchdog
\* have appended to it.
C27_HistoryAppendOnly ==
    [][/\ \A h \in DOMAIN hist : IsPrefix(hist[h], hist'[h])
       /\ \A o \in DOMAIN heap : heap'[o].history = heap[o].history
       /\ Len(hist') # Len(hist) =>
              /\ Len(hist') = Len(hist) + 1
              /\ hist'[Len(hist')] = <<>>
              /\ \E callSid \in CallSids : activeCalls'[callSid] = Len(heap')
       /\ \A e \in DOMAIN ends' :
              HandsToGrading(e) =>
                  /\ ends'[e].graded = hist'[heap'[ends'[e].callState].history]
                  /\ IsPrefix(hist[heap'[ends'[e].callState].history], ends'[e].graded)]_vars

C27_GradedAfterCopyAndWatchdog ==
    \E e \in DOMAIN ends :
        /\ ends[e].st = "done"
        /\ \E p \in DOMAIN heap :
               p < ends[e].callState /\ Session(p) = Session(ends[e].callState)
        /\ Len(ends[e].graded) = 3
        /\ ends[e].graded[1].role = "user"
        /\ ends[e].graded[2] = AssistantTurn(Spoken)
        /\ ends[e].graded[3] = WatchdogTerminated(REPLY_WATCHDOG_MS)

\* the boundary timer t expires in this step
Expires(t) == ArmedBoundary(t) /\ cyc'[t].st = "stt"

\* C28: when a boundary timer expires, one step with no frame ingested in it
\* sets isProcessing, takes all buffered frames as the cycle's snapshot,
\* empties the buffer and resets hasSpoken; so once isProcessing is true the
\* frames of that cycle are no longer in the buffer of the session (of the
\* object registered for it, into which frames are ingested).
C28_FlushedWhenProcessing ==
    [][\A t \in DOMAIN cyc :
           Expires(t) =>
               LET o == cyc[t].callState
                   r == activeCalls'[cyc[t].callSid]
               IN /\ heap'[o].isProcessing
                  /\ cyc'[t].snap = arrs[heap[o].audioBuffer]
                  /\ arrs'[heap'[o].audioBuffer] = <<>>
                  /\ ~heap'[o].hasSpoken
                  /\ frameCount' = frameCount
                  /\ (r # NULL /\ heap'[r].history = heap[o].history) =>
                         Elements(arrs'[heap'[r].audioBuffer]) \cap Elements(cyc'[t].snap) = {}]_vars

\* a frame arms a boundary timer in this step
Arms == Ingests /\ Len(cyc') = Len(cyc) + 1

\* C29: a quiet frame arms a boundary timer only in a fresh speech episode: a
\* loud frame has been ingested for the session since its buffer was last
\* flushed (or since it was created); no other operation, playing a reply
\* included, lets a quiet frame arm the timer.
C29_ArmedOnlyAfterSpeech ==
    [][Arms => episode[Session(cyc'[Len(cyc')].callState)]]_vars

\* C30: the target language code posted to the synthesis provider in a turn is
\* the languageCode that streamToText returned in the same turn, for every
\* code the transcription provider can return.
C30_ReplyInDetectedLanguage ==
    \A t \in DOMAIN cyc :
        cyc[t].target_language_code # NoLanguage =>
            cyc[t].target_language_code = cyc[t].languageCode

\* the playback frames cycle t has sent, in the order of sending
Frames(t) == SelectSeq(cyc[t].fx, LAMBDA e : e.op = "send")

\* the number of frames an encoded reply of n bytes is cut into
FrameCountOf(n) == (n + CHUNK_SIZE_BYTES - 1) \div CHUNK_SIZE_BYTES

\* the frames sent so far are the first frames of the reply, in order, each
\* beginning where the one before it ended
FramesInOrder(t) ==
    \A i \in DOMAIN Frames(t) :
        /\ Frames(t)[i].from = (i - 1) * CHUNK_SIZE_BYTES
        /\ Frames(t)[i].to - Frames(t)[i].from \in 1..CHUNK_SIZE_BYTES
        /\ Frames(t)[i].to <= Frames(t)[i].of
        /\ i < Len(Frames(t)) =>
               /\ Frames(t)[i].to - Frames(t)[i].from = CHUNK_SIZE_BYTES
               /\ Frames(t)[i + 1].from = Frames(t)[i].to

\* playback of the reply of cycle t is over on a transport that is still open
PlayedOut(t) ==
    /\ cyc[t].st = "exited"
    /\ Frames(t) # <<>>
    /\ ws[cyc[t].ws].readyState = WS_OPEN

\* C31: an encoded reply of n bytes played on a transport that stays open is
\* sent as exactly ceil(n/320) frames in increasing offset order, each of 320
\* bytes except possibly the last, covering the reply from its first byte to
\* its last with no byte dropped, duplicated or reordered.
C31_ReplyCutIntoFrames ==
    \A t \in DOMAIN cyc :
        /\ FramesInOrder(t)
        /\ PlayedOut(t) =>
               /\ Len(Frames(t)) = FrameCountOf(Frames(t)[1].of)
               /\ Frames(t)[Len(Frames(t))].to = Frames(t)[1].of

C31_LongReplyPlayedOut ==
    \E t \in DOMAIN cyc :
        /\ PlayedOut(t)
        /\ Len(Frames(t)) > BURST_FRAMES + 1
        /\ Frames(t)[Len(Frames(t))].to - Frames(t)[Len(Frames(t))].from < CHUNK_SIZE_BYTES

\* cycle t calls the generation provider in this step
GenerationCall(t) == cyc[t].st = "filter" /\ cyc'[t].st = "llm"

\* C32: an injected OTP is consumed at most once: a generation call is given
\* an OTP only if that OTP was injected since the last generation call that
\* was given one; later turns and later sessions get none unless it is
\* injected again.
C32_OtpForwardedOnce ==
    [][\A t \in DOMAIN cyc :
           (GenerationCall(t) /\ latestReceivedOTP # NULL) => ~otpForwarded]_vars

\* everything that belongs to session h: its history, its callState objects
\* with their buffers, the registry entries that lead to it and the state of
\* its timers
Objects(h) == {o \in DOMAIN heap : heap[o].history = h}
SessionState(h) ==
    [history |-> hist[h],
     objects |-> {<<o, heap[o], arrs[heap[o].audioBuffer]>> : o \in Objects(h)},
     registry |-> {s \in DOMAIN activeCalls : activeCalls[s] \in Objects(h)},
     boundary |-> {<<t, cyc[t].st>> : t \in {u \in DOMAIN cyc : cyc[u].callState \in Objects(h)}},
     watchdog |-> {<<w, wd[w].st>> : w \in {v \in DOMAIN wd : wd[v].callState \in Objects(h)}}]
Registered(h) == \E s \in DOMAIN activeCalls : activeCalls[s] \in Objects(h)

\* the step is one of turn cycle t: its timer expires or one of its awaits
\* returns
CycleStep(t) == cyc'[t] # cyc[t] /\ ~Ingests /\ ~StartsCall
\* the step is the expiry of watchdog w
WatchdogStep(w) == wd[w].st = "armed" /\ wd'[w].st = "fired"

\* C33: an operation on one session (here a step of one of its turn cycles,
\* provider failures included, or the expiry of its watchdog with the teardown
\* it starts) leaves every other registered session as it is: history,
\* buffer, flags, timers and registry entry.
C33_OtherSessionsUntouched ==
    [][\A h \in DOMAIN hist :
           (/\ Registered(h)
            /\ \/ \E t \in DOMAIN cyc : CycleStep(t) /\ CycleSession(t) # h
               \/ \E w \in DOMAIN wd : WatchdogStep(w) /\ Session(wd[w].callState) # h)
           => SessionState(h)' = SessionState(h)]_vars

\* a teardown gets past its drain loop in this step: it goes on to its report
\* or, with nothing to grade, finishes
PassesDrain ==
    \/ \E h \in DOMAIN reports : reports'[h] > reports[h]
    \/ \E e \in DOMAIN ends' :
           /\ ends'[e].st = "report"
           /\ e \in DOMAIN ends => ends[e].st = "drain"

\* C34: when the watchdog expires for a session started by the transport's
\* 'start' event, the call is force-ended: once the teardown it starts is past
\* its drain loop, the connection of that call is no longer open.
C34_WatchdogClosesTransport ==
    [][\A w \in DOMAIN wd :
           (WatchdogStep(w) /\ PassesDrain) =>
               \A c \in DOMAIN ws :
                   ws[c].callSid = wd[w].callSid => ws'[c].readyState # WS_OPEN]_vars

\* cycle t does `what` in this step
Does(t, what) == Cardinality(FxAt(t, what)') > Cardinality(FxAt(t, what))

\* C35: once endCall has set isEnding for a session, playAIResponse appends no
\* further assistant reply to its history and no playback frame is sent for
\* it, also when a turn cycle was in flight (waiting for the generation
\* provider, say) at the moment endCall began.
C35_NoReplyWhileEnding ==
    [][\A t \in DOMAIN cyc :
           Ending(CycleSession(t)) => ~Does(t, "assistant") /\ ~Does(t, "send")]_vars

\* C36: once endCall has removed a session from the registry, the registry
\* holds no entry for that call id again until a startCall for the id; a turn
\* cycle that outlives the teardown does not put the session back.
C36_RemovedStaysRemoved ==
    [][\A callSid \in DOMAIN activeCalls :
           (activeCalls[callSid] = NULL /\ activeCalls'[callSid] # NULL) => StartsCall]_vars

\* a watchdog is armed in this step
ArmsWatchdog == Len(wd') > Len(wd)
\* endCall has emitted the report of session h
Reported(h) == reports[h] >= 1

\* C37: no watchdog is armed for a session after its endCall has started, and
\* none remains armed once the session has been removed from the registry; a
\* playback that completes or aborts during teardown does not re-arm it.
C37_NoWatchdogWhileEnding ==
    /\ [][ArmsWatchdog => ~Ending(Session(wd'[Len(wd')].callState))]_vars
    /\ [](\A w \in DOMAIN wd :
              (Reported(Session(wd[w].callState)) /\ ~Registered(Session(wd[w].callState)))
                  => ~ArmedWatchdog(w))

\* C38: every ingested frame is handed to the transcription provider in at
\* most one snapshot: the snapshots of two boundary expiries have no frame in
\* common, also when the registry entry was replaced by an updatedState copy
\* while frames were arriving.
C38_FrameSnapshottedOnce ==
    \A t1, t2 \in DOMAIN cyc :
        t1 # t2 => Elements(cyc[t1].snap) \cap Elements(cyc[t2].snap) = {}

\* the second loud frame has been ingested and no boundary callback has taken
\* it into its snapshot
RecallPending ==
    /\ frameCount >= RcLoudFrame
    /\ \A t \in DOMAIN cyc : RcLoudFrame \notin Elements(cyc[t].snap)

\* no boundary timer of the session is pending and none of its cycles runs
AtRest == \A t \in DOMAIN cyc : ~ArmedBoundary(t) /\ ~InFlight(t)

Recalled == \E t \in DOMAIN cyc : RcLoudFrame \in Elements(cyc[t].snap)

\* C39: with timers that fire and provider calls that settle, a loud frame of
\* a live session that is followed by quiet frames only is eventually part of
\* the snapshot of a boundary expiry, also when it arrived while an earlier
\* turn cycle was in flight or that cycle ended with WAIT: whenever the
\* session is at rest with the loud frame ingested and a quiet frame still to
\* come, a snapshot that contains the loud frame follows.
C39_LoudFrameRecalled ==
    [](/\ RecallPending
       /\ AtRest
       /\ activeCalls[lastFrame.callSid] # NULL
       /\ frameCount < RcFrames
       => <>Recalled)

\* turn cycle t and watchdog w were created for call id s by a session other
\* than the one now registered for s: a session that startCall(s) replaced
OfReplacedCycle(t, s) ==
    cyc[t].callSid = s /\ CycleSession(t) # Session(activeCalls[s])
OfReplacedWatchdog(w, s) ==
    wd[w].callSid = s /\ Session(wd[w].callState) # Session(activeCalls[s])

\* C40: after startCall(id) has replaced a session, no step of a boundary
\* timer, an in-flight turn cycle or a watchdog of the replaced session
\* changes the registry entry of the new session, ends it or cancels its
\* timers, or appends to its history; the scenario the new session was given
\* at its start stays.
C40_ReplacedSessionIsInert ==
    [][\A s \in CallSids :
           (/\ activeCalls[s] # NULL
            /\ \/ \E t \in DOMAIN cyc : CycleStep(t) /\ OfReplacedCycle(t, s)
               \/ \E w \in DOMAIN wd : WatchdogStep(w) /\ OfReplacedWatchdog(w, s))
           => /\ activeCalls'[s] = activeCalls[s]
              /\ heap'[activeCalls[s]] = heap[activeCalls[s]]
              /\ hist'[Session(activeCalls[s])] = hist[Session(activeCalls[s])]
              /\ \A w \in DOMAIN wd :
                     wd[w].callState = activeCalls[s] => wd'[w] = wd[w]]_vars

====
